---- MODULE Spec2Model ----
(***************************************************************************)
(* A state-machine model of the two orchestrators of the simulator:        *)
(*   source/gpu_main.cu     main + worker_thread (one per GPU)             *)
(*   source/cpu_mt_main.cpp main + sim_loop      (one per hardware thread) *)
(* The work pool, the drivers, the output buffer and the loaders are not   *)
(* part of the source files at hand; they are modelled from their          *)
(* documented contracts (spec.md, sections 4.1 - 4.4).                     *)
(***************************************************************************)
EXTENDS Integers, Sequences, FiniteSets, TLC

\* ---------------------------------------------------------------- bounds
MaxGpus == 2        \* worker threads (GPU devices / CPU hardware threads)
MaxN == 3           \* primaries in the input file
MaxCap == 2         \* --capacity values tried
MaxPrescan == 2     \* --prescan-size values tried
MaxLife == 2        \* physics events a particle can undergo before it ends
MaxMat == 1         \* largest material id in a geometry
BufRecords == 1     \* records the output buffer holds (1024 in the program)

\* ------------------------------------------------------ program constants
SizeofFloat == 4
SizeofInt == 4
FloatsPerRecord == 7
IntsPerRecord == 2

\* status_t, in declaration order
st_init == 0
st_geometry_loaded == 1
st_materials_loaded == 2
st_primaries_loaded == 3
st_prescan_done == 4

Workers == 0 .. MaxGpus - 1
Tags == 0 .. MaxN - 1
Lives == 1 .. MaxLife
Keys == Tags \X Lives
Undef == -1         \* an uninitialised size_t member of worker_data

VARIABLES
  variant,        \* "gpu" | "cpu": which executable runs
  stub,           \* TRUE: physics stub, every particle is detected at its first event
  buffered,       \* which running count flush_buffered returns (see FlushedRunningCount)
  npos,           \* pos_flags.size()
  capacity, prescan_size, batch_factor,   \* command-line settings (batch_factor = <<num, den>>)
  file_n,         \* number of primaries in the primaries file
  mpc,            \* main's position
  n_gpus,         \* number of spawned workers
  status,         \* data.status
  frame_size, batch_size,   \* data.frame_size, data.batch_size
  running_count,  \* data.running_count
  pixels,         \* data.pixels: tag -> pixel (the pixel is named by its input line)
  origin,         \* primaries: tag -> input line of the primary
  triangles,      \* what load_tri_file returned: [loaded, empty, max_material]
  pool,           \* work_pool: [total, cursor]
  wpc,            \* each worker's position
  alive, detected,          \* driver: particle store (bags)
  snap,                     \* driver: running count copied by buffer_detected
  pending,                  \* driver: async transfers started and not yet synchronised
  stagedOut, stagedIn,      \* driver: host staging regions
  dcap, dbatch,             \* driver: capacity, input buffer size
  iter,                     \* worker: frame loop counter i
  rc,                       \* worker: running_count local
  prescan_stats,            \* worker 0: prescan samples
  buf,                      \* output_buffer per worker: sequence of pieces
  sink,                     \* output_stream: sequence of blocks
  injected,                 \* ghost: tags pushed into each driver
  added,                    \* ghost: records passed to buff.add per worker
  delivered,                \* ghost: tag -> number of get_work calls that returned it
  granted,                  \* ghost: sum of the counts returned by get_work
  emptyGrant                \* ghost: some get_work returned 0 with work remaining

cfgvars == <<variant, stub, buffered, npos, capacity, prescan_size, batch_factor, file_n>>
mainvars == <<mpc, n_gpus, status, pixels, origin, triangles>>
pubvars == <<frame_size, batch_size>>
poolvars == <<pool, delivered, granted, emptyGrant>>
drvvars == <<alive, detected, snap, pending, stagedOut, stagedIn, dcap, dbatch, injected>>
outvars == <<buf, sink, added>>
wrkvars == <<wpc, iter, rc, prescan_stats, running_count>>
vars == <<cfgvars, mainvars, pubvars, poolvars, drvvars, outvars, wrkvars>>

\* ------------------------------------------------------------- bag helpers
RECURSIVE SumOver(_, _)
SumOver(f, S) ==
  IF S = {} THEN 0
  ELSE LET x == CHOOSE y \in S : TRUE IN f[x] + SumOver(f, S \ {x})

EmptyBag(D) == [k \in D |-> 0]
BagSize(b) == SumOver(b, DOMAIN b)
BagAdd(b, k, n) == [b EXCEPT ![k] = @ + n]
BagPlus(a, b) == [k \in DOMAIN a |-> a[k] + b[k]]

RECURSIVE Rep(_, _)
Rep(x, n) == IF n = 0 THEN <<>> ELSE <<x>> \o Rep(x, n - 1)

RECURSIVE BagToSeq(_, _)
BagToSeq(b, S) ==
  IF S = {} THEN <<>>
  ELSE LET k == CHOOSE y \in S : \A z \in S : (y[1] < z[1]) \/ (y[1] = z[1] /\ y[2] <= z[2])
       IN Rep(k, b[k]) \o BagToSeq(b, S \ {k})

Min(a, b) == IF a <= b THEN a ELSE b

\* ------------------------------------------------------------------- Init
\* The command lines and input files tried: a base configuration, varied one
\* setting at a time, plus the invalid values main rejects.
BatchFactors == { <<0, 1>>, <<9, 10>>, <<2, 1>> }

Configs ==
  { c \in [npos : 2 .. 4, capacity : 0 .. MaxCap, prescan_size : 0 .. MaxPrescan,
           batch_factor : BatchFactors, file_n : 0 .. MaxN] :
      \/ c.npos = 3 /\ c.capacity >= 1 /\ c.prescan_size >= 1 /\ c.batch_factor[1] > 0
      \/ c.npos = 2 /\ c.capacity = 1 /\ c.prescan_size = 1 /\ c.batch_factor = <<2, 1>> /\ c.file_n = 1
      \/ c.npos = 4 /\ c.capacity = 1 /\ c.prescan_size = 1 /\ c.batch_factor = <<2, 1>> /\ c.file_n = 1
      \/ c.npos = 3 /\ c.capacity = 0 /\ c.prescan_size = 1 /\ c.batch_factor = <<2, 1>> /\ c.file_n = 1
      \/ c.npos = 3 /\ c.capacity = 1 /\ c.prescan_size = 0 /\ c.batch_factor = <<2, 1>> /\ c.file_n = 1
      \/ c.npos = 3 /\ c.capacity = 1 /\ c.prescan_size = 1 /\ c.batch_factor = <<0, 1>> /\ c.file_n = 1 }

Init ==
  /\ variant \in {"gpu", "cpu"}
  /\ stub \in BOOLEAN
  /\ buffered \in BOOLEAN
  /\ \E c \in Configs :
       /\ npos = c.npos
       /\ capacity = c.capacity
       /\ prescan_size = c.prescan_size
       /\ batch_factor = c.batch_factor
       /\ file_n = c.file_n
  /\ variant = "cpu" => (capacity = 1 /\ prescan_size = 1 /\ batch_factor = <<2, 1>> /\ buffered)
  /\ mpc = "args"
  /\ n_gpus = 0
  /\ status = st_init
  /\ frame_size = Undef
  /\ batch_size = Undef
  /\ running_count = [w \in Workers |-> 0]
  /\ pixels = <<>>
  /\ origin = <<>>
  /\ triangles = [loaded |-> FALSE, empty |-> TRUE, max_material |-> -1]
  /\ pool = [total |-> 0, cursor |-> 0]
  /\ wpc = [w \in Workers |-> "none"]
  /\ alive = [w \in Workers |-> EmptyBag(Keys)]
  /\ detected = [w \in Workers |-> EmptyBag(Tags)]
  /\ snap = [w \in Workers |-> 0]
  /\ pending = [w \in Workers |-> {}]
  /\ stagedOut = [w \in Workers |-> EmptyBag(Tags)]
  /\ stagedIn = [w \in Workers |-> [first |-> 0, count |-> 0]]
  /\ dcap = [w \in Workers |-> 0]
  /\ dbatch = [w \in Workers |-> 0]
  /\ iter = [w \in Workers |-> 0]
  /\ rc = [w \in Workers |-> 0]
  /\ prescan_stats = <<>>
  /\ buf = [w \in Workers |-> <<>>]
  /\ sink = <<>>
  /\ injected = [w \in Workers |-> {}]
  /\ added = [w \in Workers |-> EmptyBag(Tags)]
  /\ delivered = EmptyBag(Tags)
  /\ granted = 0
  /\ emptyGrant = FALSE

\* ------------------------------------------------------------ work pool
\* work_pool::get_work(max_n): reserve up to max_n consecutive primaries.
GetWork(max_n) ==
  [first |-> pool.cursor, count |-> Min(max_n, pool.total - pool.cursor)]

PoolDone == pool.cursor = pool.total
PrimariesToGo == pool.total - pool.cursor

\* The pool and its bookkeeping after a get_work call that returned g.
Reserve(g) ==
  /\ pool' = [pool EXCEPT !.cursor = @ + g.count]
  /\ delivered' = [t \in Tags |->
        delivered[t] + (IF t >= g.first /\ t < g.first + g.count THEN 1 ELSE 0)]
  /\ granted' = granted + g.count
  /\ emptyGrant' = (emptyGrant \/ (g.count = 0 /\ pool.cursor < pool.total))

\* ---------------------------------------------------------------- driver
FreeSlots(w) == dcap[w] - BagSize(alive[w]) - BagSize(detected[w])

\* driver::push: place up to n particles, tags first .. first+n-1, into empty slots.
PushCount(w, n) == Min(n, FreeSlots(w))
PushInto(al, first, placed) ==
  [k \in Keys |-> al[k] +
     (IF k[2] = MaxLife /\ k[1] >= first /\ k[1] < first + placed THEN 1 ELSE 0)]

\* driver::do_iteration: every alive particle undergoes one event. A particle
\* is detected, terminated, goes on, or goes on and creates a secondary
\* (same tag) in an empty slot. Yields the set of possible stores.
RECURSIVE Events(_, _, _, _)
Events(ps, al, det, free) ==
  IF ps = <<>> THEN {[al |-> al, det |-> det]}
  ELSE LET t == Head(ps)[1]
           l == Head(ps)[2]
           rest == Tail(ps)
       IN Events(rest, al, BagAdd(det, t, 1), free)
          \cup (IF stub THEN {} ELSE Events(rest, al, det, free + 1))
          \cup (IF stub \/ l = 1 THEN {}
                ELSE Events(rest, BagAdd(al, <<t, l - 1>>, 1), det, free))
          \cup (IF stub \/ l = 1 \/ free = 0 THEN {}
                ELSE Events(rest, BagAdd(al, <<t, l - 1>>, 2), det, free - 1))

DoIteration(w) ==
  Events(BagToSeq(alive[w], Keys), EmptyBag(Keys), detected[w], FreeSlots(w))

\* --------------------------------------------------------- output buffer
\* A record is written as two pieces: 7 floats, then 2 ints.
FloatBytes == FloatsPerRecord * SizeofFloat
IntBytes == IntsPerRecord * SizeofInt

\* (mutation) the capacity counts the floats of a record only
BufferCapacityFloatsOnly == BufRecords * (FloatsPerRecord * SizeofFloat)

\* output_buffer capacity: 1024*(7*sizeof(float) + 2*sizeof(int)), with
\* BufRecords standing for 1024.
BufferCapacity == BufRecords * (FloatsPerRecord * SizeofFloat + IntsPerRecord * SizeofInt)

RECURSIVE Bytes(_)
Bytes(b) == IF b = <<>> THEN 0 ELSE Head(b).n + Bytes(Tail(b))

\* output_buffer::add: a piece that does not fit makes the buffer write its
\* content to the sink as one block first. Yields [buf, sink].
BufAdd(b, sk, piece) ==
  IF Bytes(b) + piece.n > BufferCapacity /\ b # <<>>
  THEN [buf |-> <<piece>>, sink |-> Append(sk, b)]
  ELSE [buf |-> Append(b, piece), sink |-> sk]

\* output_buffer::flush
BufFlush(b, sk) ==
  IF b = <<>> THEN [buf |-> b, sink |-> sk]
  ELSE [buf |-> <<>>, sink |-> Append(sk, b)]

\* (mutation) the pixel of the first primary, whatever the tag
RecordPixelOfFirst(t) == pixels[0]

\* The pixel the callback writes for tag t: data.pixels[t].
RecordPixel(t) == pixels[t]

\* The callback handed to flush_buffered / flush_detected: two add calls.
Emit(w, t) ==
  LET f == [w |-> w, t |-> t, px |-> -1, n |-> FloatBytes]
      i == [w |-> w, t |-> t, px |-> RecordPixel(t), n |-> IntBytes]
      a == BufAdd(buf[w], sink, f)
  IN BufAdd(a.buf, a.sink, i)

\* ----------------------------------------------------- gpu_main.cu: main
\* The exit of main with status 1: a std::thread that is still joinable when
\* the vector of threads is destroyed ends the process (std::terminate).
Return1 == IF n_gpus > 0 THEN "aborted" ELSE "ret1"

ProcessRuns == mpc \notin {"aborted", "ret1", "ret0"}

\* Worker w is at position p, in a process that still runs.
At(w, p) == ProcessRuns /\ wpc[w] = p

\* (mutation) the test without capacity
BadArgsNoCapacity ==
  npos < 3 \/ prescan_size <= 0 \/ batch_factor[1] <= 0

\* pos_flags.size() < 3 || capacity <= 0 || prescan_size <= 0 || batch_factor <= 0
BadArgs ==
  npos < 3 \/ capacity <= 0 \/ prescan_size <= 0 \/ batch_factor[1] <= 0

GMainArgs ==
  /\ variant = "gpu" /\ mpc = "args"
  /\ mpc' = IF BadArgs THEN "ret1" ELSE "spawn"
  /\ UNCHANGED <<cfgvars, n_gpus, status, pixels, origin, triangles, pubvars, poolvars,
                 drvvars, outvars, wrkvars>>

\* One worker per device; the worker of device 0 does the prescan.
GMainSpawn ==
  /\ variant = "gpu" /\ mpc = "spawn"
  /\ \E n \in 0 .. MaxGpus :
       /\ n_gpus' = n
       /\ wpc' = [w \in Workers |-> IF w < n THEN "wait_geometry" ELSE "none"]
  /\ running_count' = [w \in Workers |-> 0]
  /\ mpc' = "load_geometry"
  /\ UNCHANGED <<cfgvars, status, pixels, origin, triangles, pubvars, poolvars,
                 drvvars, outvars, iter, rc, prescan_stats>>

\* int max_material compared with the size_t pos_flags.size()-3: the int is
\* converted to unsigned, so a negative value compares as a huge one.
TooFewMaterials(max_material) ==
  IF max_material < 0 THEN TRUE ELSE max_material > npos - 3

\* load_tri_file: no triangle at all, or triangles whose largest material id
\* is m (-1 when every id is a special, negative one).
TriFiles ==
  { [loaded |-> TRUE, empty |-> TRUE, max_material |-> -1] }
    \cup { [loaded |-> TRUE, empty |-> FALSE, max_material |-> m] : m \in -1 .. MaxMat }

GMainGeometry ==
  /\ variant = "gpu" /\ mpc = "load_geometry"
  /\ \E tri \in TriFiles :
       /\ triangles' = tri
       /\ IF tri.empty \/ TooFewMaterials(tri.max_material)
          THEN mpc' = Return1 /\ status' = status
          ELSE mpc' = "load_materials" /\ status' = st_geometry_loaded
  /\ UNCHANGED <<cfgvars, n_gpus, pixels, origin, pubvars, poolvars,
                 drvvars, outvars, wrkvars>>

GMainMaterials ==
  /\ variant = "gpu" /\ mpc = "load_materials"
  /\ mpc' = "load_primaries"
  /\ status' = st_materials_loaded
  /\ UNCHANGED <<cfgvars, n_gpus, pixels, origin, triangles, pubvars, poolvars,
                 drvvars, outvars, wrkvars>>

\* sort_pri_file and prescan_shuffle reorder primaries and pixels together.
Shuffles(n) ==
  { f \in [0 .. n - 1 -> 0 .. n - 1] : \A a, b \in 0 .. n - 1 : f[a] = f[b] => a = b }

GMainPrimaries ==
  /\ variant = "gpu" /\ mpc = "load_primaries"
  /\ IF file_n = 0
     THEN /\ mpc' = Return1
          /\ UNCHANGED <<status, pixels, origin, poolvars>>
     ELSE /\ \E f \in Shuffles(file_n) : origin' = f /\ pixels' = f
          /\ pool' = [total |-> file_n, cursor |-> 0]
          /\ status' = st_primaries_loaded
          /\ mpc' = "wait_prescan"
          /\ UNCHANGED <<delivered, granted, emptyGrant>>
  /\ UNCHANGED <<cfgvars, n_gpus, triangles, pubvars, drvvars, outvars, wrkvars>>

GMainWait ==
  /\ variant = "gpu" /\ mpc = "wait_prescan"
  /\ status >= st_prescan_done
  /\ mpc' = "progress"
  /\ UNCHANGED <<cfgvars, n_gpus, status, pixels, origin, triangles, pubvars, poolvars,
                 drvvars, outvars, wrkvars>>

\* The progress loop ends once the pool is empty and no worker reports
\* running particles.
GMainProgress ==
  /\ variant = "gpu" /\ mpc = "progress"
  /\ PrimariesToGo = 0
  /\ \A w \in Workers : w < n_gpus => running_count[w] = 0
  /\ mpc' = "join"
  /\ UNCHANGED <<cfgvars, n_gpus, status, pixels, origin, triangles, pubvars, poolvars,
                 drvvars, outvars, wrkvars>>

GMainJoin ==
  /\ variant = "gpu" /\ mpc = "join"
  /\ \A w \in Workers : w < n_gpus => wpc[w] = "done"
  /\ mpc' = "ret0"
  /\ UNCHANGED <<cfgvars, n_gpus, status, pixels, origin, triangles, pubvars, poolvars,
                 drvvars, outvars, wrkvars>>

\* -------------------------------------------- gpu_main.cu: worker_thread
\* (mutations) a wait that returns one phase early
PrimariesReadyEarly == status >= st_materials_loaded
PrescanReadyEarly == status >= st_primaries_loaded

\* (mutation) the driver is given one slot more than data.capacity
DriverCapacityPlusOne == capacity + 1

\* The predicates of the four waits on data.cv.
GeometryReady == status >= st_geometry_loaded
MaterialsReady == status >= st_materials_loaded
PrimariesReady == status >= st_primaries_loaded
PrescanReady == status >= st_prescan_done

\* (mutation) a synchronisation that waits for nothing
DeviceSynchronizeSkipped(p) == p

\* cudaDeviceSynchronize: every transfer started before it has completed.
DeviceSynchronize(p) == {}

\* (mutation) every worker is started with do_prescan = true
do_prescan_all(w) == TRUE

\* The do_prescan argument of worker_thread: i == 0.
do_prescan(w) == w = 0

\* The capacity the driver is constructed with: data.capacity.
DriverCapacity == capacity

WaitGeometry(w) ==
  /\ At(w, "wait_geometry") /\ GeometryReady
  /\ wpc' = [wpc EXCEPT ![w] = "upload_geometry"]
  /\ UNCHANGED <<cfgvars, mainvars, pubvars, poolvars, drvvars, outvars,
                 iter, rc, prescan_stats, running_count>>

\* geometry_t::create(data.geometry)
UploadGeometry(w) ==
  /\ At(w, "upload_geometry")
  /\ wpc' = [wpc EXCEPT ![w] = "wait_materials"]
  /\ UNCHANGED <<cfgvars, mainvars, pubvars, poolvars, drvvars, outvars,
                 iter, rc, prescan_stats, running_count>>

WaitMaterials(w) ==
  /\ At(w, "wait_materials") /\ MaterialsReady
  /\ wpc' = [wpc EXCEPT ![w] = "create_driver"]
  /\ UNCHANGED <<cfgvars, mainvars, pubvars, poolvars, drvvars, outvars,
                 iter, rc, prescan_stats, running_count>>

\* Copy data.materials, construct the driver; then the prescan branch.
CreateDriver(w) ==
  /\ At(w, "create_driver")
  /\ dcap' = [dcap EXCEPT ![w] = DriverCapacity]
  /\ wpc' = [wpc EXCEPT ![w] = IF do_prescan(w) THEN "wait_primaries" ELSE "wait_prescan"]
  /\ UNCHANGED <<cfgvars, mainvars, pubvars, poolvars, alive, detected, stagedOut,
                 stagedIn, dbatch, injected, outvars, iter, rc, prescan_stats,
                 running_count,
                 snap, pending>>

WaitPrimaries(w) ==
  /\ At(w, "wait_primaries") /\ PrimariesReady
  /\ wpc' = [wpc EXCEPT ![w] = "prescan_push"]
  /\ UNCHANGED <<cfgvars, mainvars, pubvars, poolvars, drvvars, outvars,
                 iter, rc, prescan_stats, running_count>>

\* get_work(data.prescan_size), d.push, first sample (particles_pushed, 0).
PrescanPush(w) ==
  /\ At(w, "prescan_push")
  /\ LET g == GetWork(prescan_size)
         placed == PushCount(w, g.count)
     IN /\ Reserve(g)
        /\ alive' = [alive EXCEPT ![w] = PushInto(@, g.first, placed)]
        /\ injected' = [injected EXCEPT ![w] = @ \cup (g.first .. g.first + placed - 1)]
        /\ prescan_stats' = << <<placed, 0>> >>
  /\ wpc' = [wpc EXCEPT ![w] = "prescan_loop"]
  /\ UNCHANGED <<cfgvars, mainvars, pubvars, detected, stagedOut, stagedIn, dcap,
                 dbatch, outvars, iter, rc, running_count,
                 snap, pending>>

Last(q) == q[Len(q)]

\* while (prescan_stats.back().first > 0) { do_iteration; push_back(...) }
PrescanLoop(w) ==
  /\ At(w, "prescan_loop")
  /\ IF Last(prescan_stats)[1] > 0
     THEN \E r \in DoIteration(w) :
            /\ alive' = [alive EXCEPT ![w] = r.al]
            /\ detected' = [detected EXCEPT ![w] = r.det]
            /\ prescan_stats' = Append(prescan_stats, <<BagSize(r.al), BagSize(r.det)>>)
            /\ wpc' = wpc
     ELSE /\ wpc' = [wpc EXCEPT ![w] = "prescan_publish"]
          /\ UNCHANGED <<alive, detected, prescan_stats>>
  /\ UNCHANGED <<cfgvars, mainvars, pubvars, poolvars, stagedOut, stagedIn, dcap,
                 dbatch, injected, outvars, iter, rc, running_count,
                 snap, pending>>

\* std::max_element: the first index (from 0) at which running is maximal.
ArgMax(stats) ==
  CHOOSE i \in 0 .. Len(stats) - 1 :
    /\ \A j \in 0 .. Len(stats) - 1 : stats[j + 1][1] <= stats[i + 1][1]
    /\ \A j \in 0 .. i - 1 : stats[j + 1][1] < stats[i + 1][1]

\* (mutation) the index one further
FrameSizeOfPlusOne(stats) == 2 + ArgMax(stats)

\* frame_size = 1 + std::distance(begin, max_element)
FrameSizeOf(stats) == 1 + ArgMax(stats)

\* The accumulator times prescan_size: the samples at 2f, 3f, ... plus twice
\* running and detected at f.
RECURSIVE TailSum(_, _, _)
TailSum(stats, i, f) ==
  IF i >= Len(stats) THEN 0 ELSE stats[i + 1][1] + TailSum(stats, i + f, f)

AccumOf(stats, f) ==
  TailSum(stats, 2 * f, f) + 2 * stats[f + 1][1] + 2 * stats[f + 1][2]

\* size_t(x) for x not representable (here: x / 0) is undefined; the builds at
\* hand give 0 or a value of the order of SIZE_MAX.
SizeMax == 2 ^ 30
UndefinedSizes == {0, SizeMax}

\* batch_size = size_t(batch_factor * capacity / accumulator), the division
\* taken exactly (no value tried sits on a rounding boundary).
BatchSizesOf(stats, f) ==
  IF f >= Len(stats) THEN UndefinedSizes
  ELSE IF AccumOf(stats, f) = 0 THEN UndefinedSizes
  ELSE { (batch_factor[1] * capacity * prescan_size)
           \div (batch_factor[2] * AccumOf(stats, f)) }

\* Compute the pair and publish it under the mutex; notify_all.
PrescanPublish(w) ==
  /\ At(w, "prescan_publish")
  /\ frame_size' = FrameSizeOf(prescan_stats)
  /\ \E b \in BatchSizesOf(prescan_stats, FrameSizeOf(prescan_stats)) : batch_size' = b
  /\ status' = st_prescan_done
  /\ wpc' = [wpc EXCEPT ![w] = "allocate"]
  /\ UNCHANGED <<cfgvars, mpc, n_gpus, pixels, origin, triangles, poolvars, drvvars, outvars,
                 iter, rc, prescan_stats, running_count>>

WaitPrescan(w) ==
  /\ At(w, "wait_prescan") /\ PrescanReady
  /\ wpc' = [wpc EXCEPT ![w] = "allocate"]
  /\ UNCHANGED <<cfgvars, mainvars, pubvars, poolvars, drvvars, outvars,
                 iter, rc, prescan_stats, running_count>>

\* d.allocate_input_buffers(data.batch_size); output_buffer buff(...)
Allocate(w) ==
  /\ At(w, "allocate")
  /\ dbatch' = [dbatch EXCEPT ![w] = batch_size]
  /\ wpc' = [wpc EXCEPT ![w] = "buffer_detected"]
  /\ UNCHANGED <<cfgvars, mainvars, pubvars, poolvars, alive, detected, stagedOut,
                 stagedIn, dcap, injected, outvars, iter, rc, prescan_stats,
                 running_count,
                 snap, pending>>

\* ----------------------------------- worker_thread: the simulation loop
\* driver::buffer_detected: the detected records go to the host staging
\* region and their slots become empty.
BufferDetected(w) ==
  /\ At(w, "buffer_detected")
  /\ stagedOut' = [stagedOut EXCEPT ![w] = detected[w]]
  /\ detected' = [detected EXCEPT ![w] = EmptyBag(Tags)]
  /\ snap' = [snap EXCEPT ![w] = BagSize(alive[w])]
  /\ pending' = [pending EXCEPT ![w] = @ \cup {"detected"}]
  /\ wpc' = [wpc EXCEPT ![w] = "push_to_simulation"]
  /\ UNCHANGED <<cfgvars, mainvars, pubvars, poolvars, alive, stagedIn, dcap,
                 dbatch, injected, outvars, iter, rc, prescan_stats, running_count>>

\* driver::push_to_simulation: the staged primaries go into empty slots;
\* cudaDeviceSynchronize; the frame loop starts at i = 0.
PushToSimulation(w) ==
  /\ At(w, "push_to_simulation")
  /\ LET placed == PushCount(w, stagedIn[w].count)
     IN /\ alive' = [alive EXCEPT ![w] = PushInto(@, stagedIn[w].first, placed)]
        /\ injected' = [injected EXCEPT ![w] =
              @ \cup (stagedIn[w].first .. stagedIn[w].first + placed - 1)]
  /\ stagedIn' = [stagedIn EXCEPT ![w] = [first |-> 0, count |-> 0]]
  /\ pending' = [pending EXCEPT ![w] = DeviceSynchronize(@)]
  /\ iter' = [iter EXCEPT ![w] = 0]
  /\ wpc' = [wpc EXCEPT ![w] = "frame"]
  /\ UNCHANGED <<cfgvars, mainvars, pubvars, poolvars, detected, stagedOut, dcap,
                 dbatch, outvars, rc, prescan_stats, running_count,
                 snap>>

\* for (i = 0; i < data.frame_size; ++i) d.do_iteration();
Frame(w) ==
  /\ At(w, "frame")
  /\ IF iter[w] < frame_size
     THEN \E r \in DoIteration(w) :
            /\ alive' = [alive EXCEPT ![w] = r.al]
            /\ detected' = [detected EXCEPT ![w] = r.det]
            /\ iter' = [iter EXCEPT ![w] = @ + 1]
            /\ wpc' = wpc
     ELSE /\ wpc' = [wpc EXCEPT ![w] = "push_to_buffer"]
          /\ UNCHANGED <<alive, detected, iter>>
  /\ UNCHANGED <<cfgvars, mainvars, pubvars, poolvars, stagedOut, stagedIn, dcap,
                 dbatch, injected, outvars, rc, prescan_stats, running_count,
                 snap, pending>>

\* driver::push_to_buffer: reserve a batch from the pool and stage it.
PushToBuffer(w) ==
  /\ At(w, "push_to_buffer")
  /\ LET g == GetWork(dbatch[w])
     IN Reserve(g) /\ stagedIn' = [stagedIn EXCEPT ![w] = g]
  /\ pending' = [pending EXCEPT ![w] = @ \cup {"primaries"}]
  /\ wpc' = [wpc EXCEPT ![w] = "flush_buffered"]
  /\ UNCHANGED <<cfgvars, mainvars, pubvars, alive, detected, stagedOut, dcap,
                 dbatch, injected, outvars, iter, rc, prescan_stats, running_count,
                 snap>>

\* The next staged record, in slot order.
NextRecord(b) == CHOOSE t \in Tags : b[t] > 0 /\ \A u \in Tags : b[u] > 0 => t <= u

\* The count flush_buffered returns. The contract names it running_count and
\* does not say of which moment: of the store as buffer_detected copied it
\* (buffered) or of the store at the call. Both readings are modelled.
FlushedRunningCount(w) == IF buffered THEN snap[w] ELSE BagSize(alive[w])

\* driver::flush_buffered: the callback runs on each staged record (one
\* record per step); then data.running_count[gpu_id] = running_count and
\* cudaDeviceSynchronize.
FlushBuffered(w) ==
  /\ At(w, "flush_buffered")
  /\ IF BagSize(stagedOut[w]) > 0
     THEN LET t == NextRecord(stagedOut[w])
              e == Emit(w, t)
          IN /\ buf' = [buf EXCEPT ![w] = e.buf]
             /\ sink' = e.sink
             /\ added' = [added EXCEPT ![w] = BagAdd(@, t, 1)]
             /\ stagedOut' = [stagedOut EXCEPT ![w] = BagAdd(@, t, -1)]
             /\ UNCHANGED <<wpc, rc, running_count, pending>>
     ELSE /\ rc' = [rc EXCEPT ![w] = FlushedRunningCount(w)]
          /\ running_count' = [running_count EXCEPT ![w] = FlushedRunningCount(w)]
          /\ pending' = [pending EXCEPT ![w] = DeviceSynchronize(@)]
          /\ wpc' = [wpc EXCEPT ![w] = "check"]
          /\ UNCHANGED <<buf, sink, added, stagedOut>>
  /\ UNCHANGED <<cfgvars, mainvars, pubvars, poolvars, alive, detected, stagedIn,
                 dcap, dbatch, injected, iter, prescan_stats,
                 snap>>

\* (mutation) the loop is left without asking the pool
LeaveLoopIgnoringPool(w) == rc[w] = 0

\* if (running_count == 0 && data.primaries.done()) break;
LeaveLoop(w) == rc[w] = 0 /\ PoolDone

Check(w) ==
  /\ At(w, "check")
  /\ wpc' = [wpc EXCEPT ![w] = IF LeaveLoop(w) THEN "flush_output" ELSE "buffer_detected"]
  /\ UNCHANGED <<cfgvars, mainvars, pubvars, poolvars, drvvars, outvars,
                 iter, rc, prescan_stats, running_count>>

\* buff.flush(); the thread ends.
FlushOutput(w) ==
  /\ At(w, "flush_output")
  /\ LET e == BufFlush(buf[w], sink)
     IN buf' = [buf EXCEPT ![w] = e.buf] /\ sink' = e.sink
  /\ wpc' = [wpc EXCEPT ![w] = "done"]
  /\ UNCHANGED <<cfgvars, mainvars, pubvars, poolvars, drvvars, added,
                 iter, rc, prescan_stats, running_count>>

\* ------------------------------------------------- cpu_mt_main.cpp: main
CMainArgs ==
  /\ variant = "cpu" /\ mpc = "args"
  /\ mpc' = IF npos < 3 THEN "ret1" ELSE "load_geometry"
  /\ UNCHANGED <<cfgvars, n_gpus, status, pixels, origin, triangles, pubvars, poolvars,
                 drvvars, outvars, wrkvars>>

CMainGeometry ==
  /\ variant = "cpu" /\ mpc = "load_geometry"
  /\ \E tri \in TriFiles :
       /\ triangles' = tri
       /\ mpc' = IF tri.empty \/ TooFewMaterials(tri.max_material)
                 THEN "ret1" ELSE "load_primaries"
  /\ UNCHANGED <<cfgvars, n_gpus, status, pixels, origin, pubvars, poolvars,
                 drvvars, outvars, wrkvars>>

\* Tags follow the load order: no sort, no shuffle.
CMainPrimaries ==
  /\ variant = "cpu" /\ mpc = "load_primaries"
  /\ IF file_n = 0
     THEN mpc' = "ret1" /\ UNCHANGED <<pixels, origin, pool>>
     ELSE /\ origin' = [t \in 0 .. file_n - 1 |-> t]
          /\ pixels' = [t \in 0 .. file_n - 1 |-> t]
          /\ pool' = [total |-> file_n, cursor |-> 0]
          /\ mpc' = "spawn"
  /\ UNCHANGED <<cfgvars, n_gpus, status, triangles, pubvars, delivered, granted, emptyGrant,
                 drvvars, outvars, wrkvars>>

\* Load the materials; one sim_loop thread per hardware thread, each with its
\* own driver (no capacity limit) and output buffer.
CMainSpawn ==
  /\ variant = "cpu" /\ mpc = "spawn"
  /\ \E n \in 0 .. MaxGpus :
       /\ n_gpus' = n
       /\ wpc' = [w \in Workers |-> IF w < n THEN "c_get_work" ELSE "none"]
  /\ dcap' = [w \in Workers |-> SizeMax]
  /\ mpc' = "progress"
  /\ UNCHANGED <<cfgvars, status, pixels, origin, triangles, pubvars, poolvars, alive, detected,
                 stagedOut, stagedIn, dbatch, injected, outvars, iter, rc,
                 prescan_stats, running_count,
                 snap, pending>>

CMainProgress ==
  /\ variant = "cpu" /\ mpc = "progress"
  /\ PrimariesToGo = 0
  /\ mpc' = "join"
  /\ UNCHANGED <<cfgvars, n_gpus, status, pixels, origin, triangles, pubvars, poolvars,
                 drvvars, outvars, wrkvars>>

CMainJoin ==
  /\ variant = "cpu" /\ mpc = "join"
  /\ \A w \in Workers : w < n_gpus => wpc[w] = "done"
  /\ mpc' = "ret0"
  /\ UNCHANGED <<cfgvars, n_gpus, status, pixels, origin, triangles, pubvars, poolvars,
                 drvvars, outvars, wrkvars>>

\* --------------------------------------------- cpu_mt_main.cpp: sim_loop
\* (mutation) the test of the returned count inverted
NoWorkInverted(g) == g.count # 0

\* if (std::get<2>(work_data) == 0) break;
NoWork(g) == g.count = 0

\* pool.get_work(1); if (count == 0) break;
CGetWork(w) ==
  /\ At(w, "c_get_work")
  /\ LET g == GetWork(1)
     IN /\ Reserve(g)
        /\ stagedIn' = [stagedIn EXCEPT ![w] = g]
        /\ wpc' = [wpc EXCEPT ![w] = IF NoWork(g) THEN "flush_output" ELSE "c_push"]
  /\ UNCHANGED <<cfgvars, mainvars, pubvars, alive, detected, stagedOut, dcap,
                 dbatch, injected, outvars, iter, rc, prescan_stats, running_count,
                 snap, pending>>

CPush(w) ==
  /\ At(w, "c_push")
  /\ LET placed == PushCount(w, stagedIn[w].count)
     IN /\ alive' = [alive EXCEPT ![w] = PushInto(@, stagedIn[w].first, placed)]
        /\ injected' = [injected EXCEPT ![w] =
              @ \cup (stagedIn[w].first .. stagedIn[w].first + placed - 1)]
  /\ stagedIn' = [stagedIn EXCEPT ![w] = [first |-> 0, count |-> 0]]
  /\ wpc' = [wpc EXCEPT ![w] = "c_simulate"]
  /\ UNCHANGED <<cfgvars, mainvars, pubvars, poolvars, detected, stagedOut, dcap,
                 dbatch, outvars, iter, rc, prescan_stats, running_count,
                 snap, pending>>

\* driver::simulate_to_end: events until no particle is alive. Yields the set
\* of possible bags of detected records.
RECURSIVE ToEnd(_, _)
ToEnd(al, det) ==
  IF BagSize(al) = 0 THEN {det}
  ELSE UNION { ToEnd(r.al, r.det) :
                 r \in Events(BagToSeq(al, Keys), EmptyBag(Keys), det, SizeMax) }

CSimulate(w) ==
  /\ At(w, "c_simulate")
  /\ \E d \in ToEnd(alive[w], detected[w]) : detected' = [detected EXCEPT ![w] = d]
  /\ alive' = [alive EXCEPT ![w] = EmptyBag(Keys)]
  /\ wpc' = [wpc EXCEPT ![w] = "c_flush_detected"]
  /\ UNCHANGED <<cfgvars, mainvars, pubvars, poolvars, stagedOut, stagedIn, dcap,
                 dbatch, injected, outvars, iter, rc, prescan_stats, running_count,
                 snap, pending>>

\* driver::flush_detected: the callback runs on each detected record (one
\* record per step) and its slot becomes empty.
CFlushDetected(w) ==
  /\ At(w, "c_flush_detected")
  /\ IF BagSize(detected[w]) > 0
     THEN LET t == NextRecord(detected[w])
              e == Emit(w, t)
          IN /\ buf' = [buf EXCEPT ![w] = e.buf]
             /\ sink' = e.sink
             /\ added' = [added EXCEPT ![w] = BagAdd(@, t, 1)]
             /\ detected' = [detected EXCEPT ![w] = BagAdd(@, t, -1)]
             /\ wpc' = wpc
     ELSE /\ wpc' = [wpc EXCEPT ![w] = "c_get_work"]
          /\ UNCHANGED <<buf, sink, added, detected>>
  /\ UNCHANGED <<cfgvars, mainvars, pubvars, poolvars, alive, stagedOut, stagedIn,
                 dcap, dbatch, injected, iter, rc, prescan_stats, running_count,
                 snap, pending>>

\* ------------------------------------------------------- specifications
GpuMain ==
  \/ GMainArgs \/ GMainSpawn \/ GMainGeometry \/ GMainMaterials \/ GMainPrimaries
  \/ GMainWait \/ GMainProgress \/ GMainJoin

CpuMain ==
  \/ CMainArgs \/ CMainGeometry \/ CMainPrimaries \/ CMainSpawn
  \/ CMainProgress \/ CMainJoin

GpuWorkerStep(w) ==
  \/ WaitGeometry(w) \/ UploadGeometry(w) \/ WaitMaterials(w) \/ CreateDriver(w)
  \/ WaitPrimaries(w) \/ PrescanPush(w) \/ PrescanLoop(w) \/ PrescanPublish(w)
  \/ WaitPrescan(w) \/ Allocate(w)
  \/ BufferDetected(w) \/ PushToSimulation(w) \/ Frame(w) \/ PushToBuffer(w)
  \/ FlushBuffered(w) \/ Check(w) \/ FlushOutput(w)

CpuWorkerStep(w) ==
  \/ CGetWork(w) \/ CPush(w) \/ CSimulate(w) \/ CFlushDetected(w) \/ FlushOutput(w)

GpuNext == GpuMain \/ \E w \in Workers : GpuWorkerStep(w)

Next ==
  \/ GpuNext
  \/ CpuMain
  \/ \E w \in Workers : CpuWorkerStep(w)

Spec == Init /\ [][Next]_vars

\* The GPU executable alone, on the physics stub with capacity 1 and prescan
\* size 1, and every thread that can take a step eventually taking one.
LiveInit ==
  Init /\ variant = "gpu" /\ stub /\ capacity <= 1 /\ prescan_size <= 1 /\ file_n <= 2

LiveSpec ==
  /\ LiveInit /\ [][GpuNext]_vars
  /\ WF_vars(GpuMain)
  /\ \A w \in Workers : WF_vars(GpuWorkerStep(w))

\* ------------------------------------------------------------ properties
Gpu == variant = "gpu"
Cpu == variant = "cpu"
Spawned == { w \in Workers : w < n_gpus }

\* The records with tag t in a sequence of pieces / in the sink (a record is
\* counted at its int piece).
RECURSIVE CountIn(_, _, _)
CountIn(b, w, t) ==
  IF b = <<>> THEN 0
  ELSE (IF Head(b).n = IntBytes /\ Head(b).t = t /\ Head(b).w = w THEN 1 ELSE 0)
       + CountIn(Tail(b), w, t)

RECURSIVE CountInSink(_, _, _)
CountInSink(sk, w, t) ==
  IF sk = <<>> THEN 0 ELSE CountIn(Head(sk), w, t) + CountInSink(Tail(sk), w, t)

\* C1: data.status never decreases; each write moves it to the next value of
\* init, geometry_loaded, materials_loaded, primaries_loaded, prescan_done.
C1_PhaseMonotone ==
  [][status' # status => status' = status + 1]_vars

C1_Witness == Gpu /\ status = st_prescan_done /\ n_gpus = 2

\* C2: a worker is at a statement that reads data.geometry, data.materials,
\* data.primaries / data.pixels, or data.frame_size / data.batch_size only
\* once status has reached the phase that publishes them; the batch size a
\* worker allocated is the published one.
C2_ReadsAfterPhase ==
  Gpu => \A w \in Workers :
    /\ wpc[w] = "upload_geometry" => status >= st_geometry_loaded
    /\ wpc[w] = "create_driver" => status >= st_materials_loaded
    /\ wpc[w] \in {"prescan_push", "prescan_loop", "prescan_publish"}
         => status >= st_primaries_loaded
    /\ wpc[w] \in {"allocate", "buffer_detected", "push_to_simulation", "frame",
                    "push_to_buffer", "flush_buffered", "check", "flush_output", "done"}
         => /\ status = st_prescan_done
            /\ frame_size # Undef /\ batch_size # Undef
            /\ frame_size = FrameSizeOf(prescan_stats)
    /\ wpc[w] \in {"buffer_detected", "push_to_simulation", "frame",
                    "push_to_buffer", "flush_buffered", "check", "flush_output", "done"}
         => dbatch[w] = batch_size

C2_Witness ==
  Gpu /\ \E w \in Workers : w # 0 /\ wpc[w] = "frame" /\ iter[w] = 1 /\ wpc[0] = "frame"

\* C3 (as claimed): no primary is delivered to two get_work calls, the counts
\* returned sum to N_primaries iff done(), and get_work returns 0 only when
\* the pool is exhausted.
C3_Linearisable ==
  /\ \A t \in Tags : delivered[t] <= 1
  /\ (granted = pool.total) <=> PoolDone
  /\ ~emptyGrant

\* C4: a GPU worker leaves its loop only from the end of a pass, and does so
\* exactly when running_count = 0 and the pool is done; once the thread has
\* ended its buffer is empty and every record it added is in the sink.
C4_LeaveStep ==
  \A w \in Workers :
    /\ (wpc[w] = "check" /\ wpc'[w] # "check")
         => (wpc'[w] = "flush_output" <=> (rc[w] = 0 /\ pool.cursor = pool.total))
    /\ (wpc[w] # "flush_output" /\ wpc'[w] = "flush_output") => wpc[w] = "check"
    /\ (wpc[w] = "flush_output" /\ wpc'[w] # "flush_output") => wpc'[w] = "done"

C4_Flushed ==
  \A w \in Workers :
    wpc[w] = "done" =>
      /\ buf[w] = <<>>
      /\ \A t \in Tags : CountInSink(sink, w, t) = added[w][t]

C4_LoopExit == [](Gpu => C4_Flushed) /\ [][Gpu => C4_LeaveStep]_vars

C4_Witness ==
  Gpu /\ \E w \in Workers : wpc[w] = "done" /\ BagSize(added[w]) >= 2

\* C5 (as claimed): with valid arguments, at least one worker and the
\* primaries loaded, every loop ends and main joins the workers and returns.
C5_Terminates ==
  (Gpu /\ n_gpus >= 1 /\ status = st_primaries_loaded) ~> (mpc = "ret0")

\* All the pieces written so far: the sink's blocks in order, then the buffers.
RECURSIVE Flatten(_)
Flatten(sk) == IF sk = <<>> THEN <<>> ELSE Head(sk) \o Flatten(Tail(sk))

Range(q) == { q[i] : i \in 1 .. Len(q) }
Written == Range(Flatten(sink)) \cup UNION { Range(buf[w]) : w \in Workers }

\* C6: every record written carries a tag in [0, N_primaries) that was
\* injected into the writing worker's driver, and its pixel is the pixel
\* loaded with that primary (the pixel of the primary's input line).
C6_TagConservation ==
  \A p \in Written :
    /\ p.t >= 0 /\ p.t < pool.total
    /\ p.t \in injected[p.w]
    /\ p.n = IntBytes => p.px = origin[p.t]

C6_Witness ==
  Gpu /\ \E p \in Range(Flatten(sink)) :
           p.n = IntBytes /\ p.t = 1 /\ origin[p.t] = 0 /\ p.t \in injected[p.w]

\* C7 (as claimed): on the physics stub, once every worker has finished, each
\* tag in [0, N) is in the output exactly once.
C7_ExactlyOnce ==
  (Gpu /\ stub /\ n_gpus >= 1 /\ \A w \in Spawned : wpc[w] = "done")
    => \A t \in 0 .. pool.total - 1 :
         SumOver([w \in Workers |-> CountInSink(sink, w, t)], Workers) = 1

\* C8: in the CPU variant the workers' primaries are disjoint, every reserved
\* primary is pushed by the worker that reserved it, a worker holds one
\* primary at a time and is about to reserve the next (or has stopped) only
\* with no alive particle and no undrained detected record, it adds records
\* for its own tags only, and it has stopped only with the pool exhausted.
C8_CpuOnePrimaryAtATime ==
  Cpu => /\ \A t \in Tags : delivered[t] <= 1
         /\ \A v, w \in Workers : v # w => injected[v] \cap injected[w] = {}
         /\ granted = SumOver([w \in Workers |-> Cardinality(injected[w]) + stagedIn[w].count],
                               Workers)
         /\ \A w \in Workers :
              /\ wpc[w] \in {"c_get_work", "flush_output", "done"}
                   => /\ BagSize(alive[w]) = 0
                      /\ BagSize(detected[w]) = 0
                      /\ stagedIn[w].count = 0
              /\ wpc[w] = "c_push"
                   => /\ stagedIn[w].count = 1
                      /\ BagSize(alive[w]) = 0 /\ BagSize(detected[w]) = 0
              /\ wpc[w] = "c_simulate"
                   => /\ BagSize(alive[w]) = 1 /\ BagSize(detected[w]) = 0
                      /\ stagedIn[w].count = 0
              /\ wpc[w] = "c_flush_detected"
                   => /\ BagSize(alive[w]) = 0 /\ stagedIn[w].count = 0
                      /\ Cardinality({t \in Tags : detected[w][t] > 0}) <= 1
              /\ \A t \in Tags : added[w][t] > 0 => t \in injected[w]
              /\ wpc[w] \in {"flush_output", "done"} => pool.cursor = pool.total

C8_Witness ==
  Cpu /\ mpc = "ret0" /\ n_gpus = 2 /\ pool.total = 3
      /\ injected[0] # {} /\ injected[1] # {} /\ BagSize(added[1]) >= 2

\* C9: alive plus detected-but-not-flushed slots of a GPU worker's driver
\* never exceed the capacity given on the command line.
C9_CapacityBound ==
  Gpu => \A w \in Workers : BagSize(alive[w]) + BagSize(detected[w]) <= capacity

C9_Witness ==
  Gpu /\ capacity < prescan_size /\ pool.cursor = prescan_size
      /\ wpc[0] = "prescan_loop" /\ Len(prescan_stats) >= 2
      /\ BagSize(alive[0]) + BagSize(detected[0]) = capacity

\* C10: every block in the sink is a whole number of 36-byte records, each a
\* 28-byte piece followed by the 8-byte piece of the same record and worker.
WholeRecords(b) ==
  /\ Bytes(b) % (FloatBytes + IntBytes) = 0
  /\ Len(b) % 2 = 0
  /\ \A i \in 1 .. Len(b) :
       IF i % 2 = 1
       THEN b[i].n = FloatBytes
       ELSE b[i].n = IntBytes /\ b[i].w = b[i - 1].w /\ b[i].t = b[i - 1].t

C10_WholeRecordBlocks ==
  /\ FloatBytes = 28 /\ IntBytes = 8
  /\ \A i \in 1 .. Len(sink) : WholeRecords(sink[i])

C10_Witness ==
  /\ Len(sink) >= 3
  /\ \E i, j \in 1 .. Len(sink) : i < j /\ sink[i][1].w = 1 /\ sink[j][1].w = 0
  /\ \E w \in Workers :
       /\ wpc[w] \in {"flush_buffered", "c_flush_detected"}
       /\ buf[w] # <<>>
       /\ \E i \in 1 .. Len(sink) : sink[i][1].w = w

\* C11 (as claimed): with a geometry that has triangles, main stops at the
\* cross-check exactly when the largest material id plus one exceeds the
\* number of material files (pos_flags.size() - 2); a geometry whose ids are
\* all negative keeps the maximum at -1 and passes.
C11_MaterialCheck ==
  [][(mpc = "load_geometry" /\ mpc' # mpc /\ ~triangles'.empty)
       => ((mpc' \in {"ret1", "aborted"})
             <=> (triangles'.max_material + 1 > npos - 2))]_vars

\* C12: with prescan_size = 0, capacity = 0, batch_factor <= 0 or fewer than
\* three positional arguments (CPU: fewer than three positional arguments)
\* main is at its argument test or has returned 1; no worker was spawned, no
\* file was loaded and the phase is init.
C12_Rejected ==
  IF Gpu
  THEN npos < 3 \/ capacity = 0 \/ prescan_size = 0 \/ batch_factor[1] <= 0
  ELSE npos < 3

C12_BadArgsReturn ==
  C12_Rejected =>
    /\ mpc \in {"args", "ret1"}
    /\ n_gpus = 0 /\ \A w \in Workers : wpc[w] = "none"
    /\ status = st_init
    /\ ~triangles.loaded /\ pixels = <<>> /\ pool.total = 0

C12_Witness == Gpu /\ npos >= 3 /\ capacity = 0 /\ mpc = "ret1"

\* C13 (as claimed): the GPU main never ends abnormally, and when it has
\* returned (status 1 after a loader error, or 0) every spawned worker thread
\* has ended and been joined.
C13_JoinedBeforeExit ==
  Gpu => /\ mpc # "aborted"
         /\ mpc \in {"ret1", "ret0"} => \A w \in Spawned : wpc[w] = "done"

\* The records in the output that carry tag t and pixel px.
PairCount(t, px) ==
  Cardinality({ i \in 1 .. Len(Flatten(sink)) :
                  LET p == Flatten(sink)[i]
                  IN p.n = IntBytes /\ p.t = t /\ p.px = px })

\* C14 (as claimed): on the physics stub a finished run of either executable
\* has emitted the pairs the CPU orchestration emits, tag t with the pixel of
\* input line t, once each.
C14_SamePairs ==
  (stub /\ mpc = "ret0" /\ n_gpus >= 1)
    => \A t, px \in 0 .. pool.total - 1 :
         PairCount(t, px) = IF px = t THEN 1 ELSE 0

\* The claimed k*: one plus the first index at which running is maximal.
C15_K ==
  1 + CHOOSE i \in 0 .. Len(prescan_stats) - 1 :
        /\ \A j \in 0 .. Len(prescan_stats) - 1 :
             prescan_stats[j + 1][1] <= prescan_stats[i + 1][1]
        /\ \A j \in 0 .. i - 1 : prescan_stats[j + 1][1] < prescan_stats[i + 1][1]

\* The claimed A, times P.
C15_PA ==
  LET k == C15_K
      tail == { i \in 0 .. Len(prescan_stats) - 1 : i >= 2 * k /\ i % k = 0 }
  IN 2 * prescan_stats[k + 1][1] + 2 * prescan_stats[k + 1][2]
       + SumOver([i \in tail |-> prescan_stats[i + 1][1]], tail)

\* C15 (as claimed): the published frame_size is k* and the published
\* batch_size is floor(batch_factor * C / A).
C15_TuningResult ==
  (Gpu /\ status = st_prescan_done) =>
    /\ frame_size = C15_K
    /\ batch_size * batch_factor[2] * C15_PA <= batch_factor[1] * capacity * prescan_size
    /\ batch_factor[1] * capacity * prescan_size
         < (batch_size + 1) * batch_factor[2] * C15_PA

\* The positions of a worker inside the prescan branch.
PrescanPositions == {"wait_primaries", "prescan_push", "prescan_loop", "prescan_publish"}

\* C16: a step that moves status to geometry_loaded, materials_loaded or
\* primaries_loaded is a step of main and leaves frame_size and batch_size
\* alone; status becomes prescan_done, and frame_size and batch_size are
\* written, only in one step of worker 0, taken from primaries_loaded with
\* both sizes still unwritten (so never a second time); no other worker
\* enters the prescan branch.
C16_WriterStep ==
  /\ (status' # status /\ status' # st_prescan_done)
       => (mpc' # mpc /\ wpc' = wpc /\ pubvars' = pubvars)
  /\ (status' # status /\ status' = st_prescan_done) \/ pubvars' # pubvars
       => /\ wpc[0] = "prescan_publish" /\ wpc'[0] = "allocate"
          /\ \A w \in Workers \ {0} : wpc'[w] = wpc[w]
          /\ mpc' = mpc
          /\ status = st_primaries_loaded /\ status' = st_prescan_done
          /\ frame_size = Undef /\ batch_size = Undef
          /\ frame_size' # Undef /\ batch_size' # Undef
  /\ \A w \in Workers \ {0} : wpc'[w] \notin PrescanPositions

C16_Writers == [][Gpu => C16_WriterStep]_vars

C16_Witness ==
  Gpu /\ n_gpus = 2 /\ status = st_prescan_done /\ frame_size = 2
      /\ wpc[0] = "allocate" /\ wpc[1] = "allocate"

\* The positions of a worker inside the simulation loop.
LoopPositions ==
  {"buffer_detected", "push_to_simulation", "frame", "push_to_buffer",
   "flush_buffered", "check"}

\* C17: inside the loop a worker moves buffer_detected, push_to_simulation,
\* do_iteration exactly frame_size times, push_to_buffer, flush_buffered, the
\* exit test, in that order; flush_buffered starts with the copy started by
\* buffer_detected synchronised, and push_to_simulation starts with the
\* staging started by push_to_buffer synchronised.
C17_OrderStep ==
  \A w \in Workers :
    LET a == wpc[w]
        b == wpc'[w]
    IN /\ (a \in LoopPositions /\ (a # b \/ iter'[w] # iter[w]))
            => \/ a = "buffer_detected" /\ b = "push_to_simulation"
               \/ a = "push_to_simulation" /\ b = "frame" /\ iter'[w] = 0
               \/ a = "frame" /\ b = "frame" /\ iter[w] < frame_size
                    /\ iter'[w] = iter[w] + 1
               \/ a = "frame" /\ b = "push_to_buffer" /\ iter[w] = frame_size
                    /\ iter'[w] = iter[w]
               \/ a = "push_to_buffer" /\ b = "flush_buffered" /\ iter'[w] = iter[w]
               \/ a = "flush_buffered" /\ b = "check" /\ iter'[w] = iter[w]
               \/ a = "check" /\ b \in {"buffer_detected", "flush_output"}
                    /\ iter'[w] = iter[w]
       /\ (a \in LoopPositions /\ (alive'[w] # alive[w] \/ detected'[w] # detected[w]))
            => \/ a = "frame" /\ iter'[w] = iter[w] + 1
               \/ a = "buffer_detected" /\ alive'[w] = alive[w]
               \/ a = "push_to_simulation" /\ detected'[w] = detected[w]

C17_Synced ==
  \A w \in Workers :
    /\ wpc[w] \in {"frame", "push_to_buffer", "flush_buffered"}
         => "detected" \notin pending[w]
    /\ wpc[w] \in {"check", "buffer_detected", "push_to_simulation"}
         => "primaries" \notin pending[w]

C17_Pipeline == [](Gpu => C17_Synced) /\ [][Gpu => C17_OrderStep]_vars

C17_Witness ==
  Gpu /\ \E w \in Workers :
    /\ wpc[w] = "push_to_simulation" /\ stagedIn[w].count > 0
    /\ pending[w] = {"detected"} /\ BagSize(added[w]) >= 1

\* C18 (as claimed): a GPU worker that has left its loop holds no staged
\* primaries, no alive particle, and no detected record that was not emitted.
C18_NothingAbandoned ==
  Gpu => \A w \in Workers :
    wpc[w] \in {"flush_output", "done"}
      => /\ stagedIn[w].count = 0
         /\ BagSize(alive[w]) = 0
         /\ BagSize(detected[w]) = 0 /\ BagSize(stagedOut[w]) = 0

\* C19 (as claimed): the first prescan sample's running count, the count
\* d.push returned, is the count get_work(prescan_size) returned, and every
\* primary the prescan reserved was injected.
C19_PrescanInjectsAll ==
  (Gpu /\ prescan_stats # <<>>)
    => /\ prescan_stats[1][1] = Min(prescan_size, pool.total)
       /\ \A t \in 0 .. Min(prescan_size, pool.total) - 1 : t \in injected[0]

\* C20: the first sample is (pushed, 0); a sample is added with, and only
\* with, each do_iteration of the prescan; every sample but the last has a
\* positive running count and the loop is left only with the last at 0; then
\* frame_size, as computed and as published, is below the number of samples.
C20_SampleStep ==
  wpc[0] = "prescan_loop" /\ (alive'[0] # alive[0] \/ detected'[0] # detected[0]
                               \/ prescan_stats' # prescan_stats)
    => prescan_stats' =
         Append(prescan_stats, <<BagSize(alive'[0]), BagSize(detected'[0])>>)

C20_Samples ==
  prescan_stats # <<>> =>
    /\ prescan_stats[1][2] = 0
    /\ \A i \in 1 .. Len(prescan_stats) - 1 : prescan_stats[i][1] > 0
    /\ wpc[0] # "prescan_loop" => Last(prescan_stats)[1] = 0
    /\ wpc[0] = "prescan_publish" => FrameSizeOf(prescan_stats) < Len(prescan_stats)
    /\ status = st_prescan_done => (frame_size >= 1 /\ frame_size < Len(prescan_stats))

C20_IndexInBounds == [](Gpu => C20_Samples) /\ [][Gpu => C20_SampleStep]_vars

C20_Witness ==
  Gpu /\ status = st_prescan_done /\ Len(prescan_stats) = 3 /\ frame_size = 2
      /\ prescan_stats[2][1] = 2

\* C21 (as claimed): once the prescan has published, the accumulator it
\* divided by was strictly positive and the published batch_size is at least
\* 1 and at most the capacity.
C21_BatchSizeUsable ==
  (Gpu /\ status = st_prescan_done)
    => /\ AccumOf(prescan_stats, frame_size) > 0
       /\ 1 <= batch_size /\ batch_size <= capacity

\* The positions at which a worker waits on data.cv.
WaitPositions == {"wait_geometry", "wait_materials", "wait_primaries", "wait_prescan"}

\* C22 (as claimed): once the arguments and every load have succeeded
\* (status is primaries_loaded), for every number of devices, status
\* eventually is prescan_done, main has left its wait for it, and no spawned
\* worker is waiting on the condition variable.
C22_NoEndlessWait ==
  (Gpu /\ status = st_primaries_loaded)
    ~> (/\ status = st_prescan_done
        /\ mpc # "wait_prescan"
        /\ \A w \in Spawned : wpc[w] \notin WaitPositions)

====
